---- MODULE Spec2Model ----
(***************************************************************************)
(* Project-root resolution of flashboot_core.utils.project_utils:          *)
(* ProjectRootFinder (VCS probes, marker scoring, structure heuristic,     *)
(* the find_root orchestrator and its per-instance cache).                 *)
(*                                                                         *)
(* The filesystem seen by one resolver is the chain of directories from    *)
(* its start path up to the filesystem root: tree[1] is start_path,        *)
(* tree[Len(tree)] is the filesystem root, tree[i+1] is tree[i].parent.    *)
(***************************************************************************)
EXTENDS Integers, Sequences, FiniteSets, TLC

VARIABLES
    tree,       \* the ancestor chain of start_path, nearest first
    cache,      \* cache[f]: ProjectRootFinder._cache of resolver instance f
    pc,         \* pc[t]: position of thread t inside find_root
    call,       \* call[t]: locals of the find_root call of thread t
    returned,   \* returned[f]: first path a find_root call on f returned
    markersArg, \* the markers argument given to _find_by_markers
    walk,       \* locals of a running _find_by_markers / _find_by_structure
    sysPath,    \* sys.path: the process-wide module search path
    ensure,     \* locals of a running ensure_search_path
    proc,       \* the process: its call stack, sys.argv[0], working directory
    resolve     \* locals of a running _get_caller_project_path

vars == <<tree, cache, pc, call, returned, markersArg, walk,
          sysPath, ensure, proc, resolve>>

(***************************************************************************)
(* Program constants.                                                      *)
(***************************************************************************)
MaxTraversalDepth == 50

DefaultMarkers ==
    << "setup.py", "pyproject.toml", "setup.cfg", "poetry.lock", "uv.lock",
       "requirements.txt", ".git", ".gitignore", ".hg", "Pipfile", "Makefile",
       ".idea", ".vscode", ".venv" >>

NonRootDirNames == {".venv", ".idea", ".git", ".vscode", ".hg"}

DefaultSearchMethods == <<"git", "svn", "hg", "markers", "structure">>

MethodMapKeys == {"git", "svn", "hg", "markers", "structure"}

(***************************************************************************)
(* Bounds of the model.                                                    *)
(***************************************************************************)
MaxMethods == 2     \* longest search_methods list given to find_root
MaxOutput == 2      \* longest standard output of a VCS command
MaxNear == 1        \* directories drawn freely at the start of the chain
MaxFrames == 2      \* frames of the call stack above the resolver's own

Instances == {"f1", "f2"}
Threads == {"t1", "t2"}
MainThread == "t1"

(***************************************************************************)
(* Values: Optional[Path] results, exceptions.                             *)
(***************************************************************************)
NoneValue == [tag |-> "None", at |-> 0, text |-> <<>>]
\* the Path of the directory at position i of the chain
DirPath(i) == [tag |-> "Path", at |-> i, text |-> <<>>]
\* Path(output): a path built from the text a VCS command printed
TextPath(s) == [tag |-> "Path", at |-> 0, text |-> s]
RaisedException == [tag |-> "Exception", at |-> 0, text |-> <<>>]
FileNotFoundError == [tag |-> "FileNotFoundError", at |-> 0, text |-> <<>>]

\* `if result:` / `if self._cache:` -- a Path is always truthy, None is not
Truthy(v) == v.tag = "Path"

(***************************************************************************)
(* The filesystem: what pathlib answers about the chain.                   *)
(* A directory record: name (basename), kind ("dir", "file", "missing", or *)
(* "denied": stat fails with PermissionError), entries (names of its       *)
(* children), subdirs (the children that are directories).                 *)
(***************************************************************************)
Dir(name, kind, entries, subdirs) ==
    [name |-> name, kind |-> kind, entries |-> entries, subdirs |-> subdirs]

PlainDir == Dir("app", "dir", {}, {})

\* the filesystem root: Path("/").name is the empty string
RootDir(entries, subdirs) == Dir("", "dir", entries, subdirs)

\* current.parent: the filesystem root is its own parent
Parent(i) == IF i < Len(tree) THEN i + 1 ELSE i

\* Path.exists / is_file / is_dir raise on a path whose stat is denied
StatRaises(i) == tree[i].kind = "denied"
Exists(i) == tree[i].kind \in {"dir", "file"}
IsDirAt(i) == tree[i].kind = "dir"
IsFileAt(i) == tree[i].kind = "file"

\* (current / name).exists()
ChildExists(i, n) == IsDirAt(i) /\ n \in tree[i].entries
\* (current / name).exists() and (current / name).is_dir()
ChildIsDir(i, n) == ChildExists(i, n) /\ n \in tree[i].subdirs

\* names matched by the pattern "*.py"
PyNames == {"setup.py", "main.py"}
\* list(current.glob("*.py"))
GlobPy(i) == IF IsDirAt(i) THEN tree[i].entries \cap PyNames ELSE {}

\* texts that name an existing directory when given to Path()
DirectoryTexts == {<<"r">>}

\* p is a path that denotes an existing directory
IsValidDirectory(p) ==
    /\ p.tag = "Path"
    /\ IF p.at > 0 THEN IsDirAt(p.at) ELSE p.text \in DirectoryTexts

(***************************************************************************)
(* VCS probes: _run_vcs_command.                                           *)
(***************************************************************************)
Whitespace == {" ", "\n"}
OutputChars == {" ", "r"}

RECURSIVE LStrip(_)
LStrip(s) ==
    IF s # <<>> /\ Head(s) \in Whitespace THEN LStrip(Tail(s)) ELSE s

RECURSIVE RStrip(_)
RStrip(s) ==
    IF s # <<>> /\ s[Len(s)] \in Whitespace
    THEN RStrip(SubSeq(s, 1, Len(s) - 1))
    ELSE s

\* str.strip()
Strip(s) == RStrip(LStrip(s))

\* what subprocess.run can do: raise (non-zero exit with check=True, timeout,
\* missing executable, cwd not a directory) or complete with some stdout
Outputs == UNION {[1..n -> OutputChars] : n \in 0..MaxOutput}
RunErrors ==
    {"CalledProcessError", "TimeoutExpired", "FileNotFoundError", "NotADirectoryError"}
Raises(e) == [ok |-> FALSE, error |-> e, stdout |-> <<>>]
Completes(o) == [ok |-> TRUE, error |-> "none", stdout |-> o]
CommandOutcomes ==
    {Raises(e) : e \in RunErrors} \cup {Completes(o) : o \in Outputs}

\* a probe without the try: what subprocess.run raises leaves the method
RunVcsCommandNoExcept(r) ==
    IF ~r.ok THEN RaisedException
    ELSE IF Strip(r.stdout) # <<>> THEN TextPath(Strip(r.stdout))
    ELSE NoneValue

\* lines 148-164: _run_vcs_command given what subprocess.run did
RunVcsCommand(r) ==
    IF r.ok /\ Strip(r.stdout) # <<>>
    THEN TextPath(Strip(r.stdout))
    ELSE NoneValue

FindByGit(r) == RunVcsCommand(r)
FindBySvn(r) == RunVcsCommand(r)
FindByHg(r) == RunVcsCommand(r)

\* subprocess.run(cmd, cwd=self.start_path, ...): with a start path that is
\* no directory the command cannot even be started
SubprocessRun ==
    IF IsDirAt(1) THEN CommandOutcomes ELSE {Raises("NotADirectoryError")}

(***************************************************************************)
(* Marker scoring: _find_by_markers.                                       *)
(* The loop state: current (a position of the chain), depth, candidates    *)
(* (the dict, as the sequence of its items in insertion order), broke      *)
(* (an exception left the loop through `except Exception: pass`).          *)
(***************************************************************************)
NoneArg == <<"None">>

\* a default that replaces None only and takes an empty list as it is
EffectiveMarkersNoneOnly(markers) ==
    IF markers = NoneArg THEN DefaultMarkers ELSE markers

\* `if not markers: markers = self._DEFAULT_MARKERS`
EffectiveMarkers(markers) ==
    IF markers = NoneArg \/ markers = <<>> THEN DefaultMarkers ELSE markers

\* sum(1 for marker in markers if (current / marker).exists())
MarkerCount(i, markers) ==
    Cardinality({k \in DOMAIN markers : ChildExists(i, markers[k])})

\* candidates[key] = value on an insertion-ordered dict
DictSet(items, key, value) ==
    IF \E k \in DOMAIN items : items[k].key = key
    THEN [k \in DOMAIN items |->
            IF items[k].key = key THEN [key |-> key, value |-> value] ELSE items[k]]
    ELSE Append(items, [key |-> key, value |-> value])

\* a maximum scan that lets a later item of equal value replace the best
RECURSIVE MaxItemLast(_, _)
MaxItemLast(items, best) ==
    IF items = <<>> THEN best
    ELSE MaxItemLast(Tail(items),
                     IF Head(items).value >= best.value THEN Head(items) ELSE best)

\* max(candidates.items(), key=lambda x: x[1]): the first item, in iteration
\* order, that no other item exceeds
RECURSIVE MaxItem(_, _)
MaxItem(items, best) ==
    IF items = <<>> THEN best
    ELSE MaxItem(Tail(items),
                 IF Head(items).value > best.value THEN Head(items) ELSE best)

MaxByCount(items) == MaxItem(Tail(items), Head(items))

\* lines 177-183: the locals before the loop, for a resolver whose
\* start_path is position i of the chain
MarkersStartAt(i) ==
    [current |-> IF IsFileAt(i) THEN Parent(i) ELSE i,
     depth |-> 0, candidates |-> <<>>, broke |-> FALSE]

MarkersStart == MarkersStartAt(1)

\* a loop condition without the hop bound
MarkersCondNoDepthBound(s) ==
    /\ ~s.broke
    /\ s.current # Parent(s.current)

\* line 186: the loop condition
MarkersCond(s) ==
    /\ ~s.broke
    /\ s.current # Parent(s.current)
    /\ s.depth < MaxTraversalDepth

\* an iteration in which an unreadable directory discards the candidates
MarkersBodyFailureDropsCandidates(s, markers) ==
    LET cur == s.current
        count == MarkerCount(cur, markers)
    IN  IF StatRaises(cur)
        THEN [s EXCEPT !.depth = s.depth + 1, !.broke = TRUE, !.candidates = <<>>]
        ELSE IF ~Exists(cur) \/ ~IsDirAt(cur)
        THEN [s EXCEPT !.depth = s.depth + 1, !.current = Parent(cur)]
        ELSE IF tree[cur].name \in NonRootDirNames
        THEN [s EXCEPT !.depth = s.depth + 1, !.current = Parent(cur)]
        ELSE [s EXCEPT !.depth = s.depth + 1,
                       !.candidates = IF count > 0
                                      THEN DictSet(s.candidates, cur, count)
                                      ELSE s.candidates,
                       !.current = Parent(cur)]

\* an iteration that scores directories of blocked names like any other
MarkersBodyNoBlockedNames(s, markers) ==
    LET cur == s.current
        count == MarkerCount(cur, markers)
    IN  IF StatRaises(cur)
        THEN [s EXCEPT !.depth = s.depth + 1, !.broke = TRUE]
        ELSE IF ~Exists(cur) \/ ~IsDirAt(cur)
        THEN [s EXCEPT !.depth = s.depth + 1, !.current = Parent(cur)]
        ELSE [s EXCEPT !.depth = s.depth + 1,
                       !.candidates = IF count > 0
                                      THEN DictSet(s.candidates, cur, count)
                                      ELSE s.candidates,
                       !.current = Parent(cur)]

\* an iteration in which a skipped directory does not count as a hop
MarkersBodySkipsAreFree(s, markers) ==
    LET cur == s.current
        count == MarkerCount(cur, markers)
    IN  IF StatRaises(cur)
        THEN [s EXCEPT !.depth = s.depth + 1, !.broke = TRUE]
        ELSE IF ~Exists(cur) \/ ~IsDirAt(cur)
        THEN [s EXCEPT !.current = Parent(cur)]
        ELSE IF tree[cur].name \in NonRootDirNames
        THEN [s EXCEPT !.current = Parent(cur)]
        ELSE [s EXCEPT !.depth = s.depth + 1,
                       !.candidates = IF count > 0
                                      THEN DictSet(s.candidates, cur, count)
                                      ELSE s.candidates,
                       !.current = Parent(cur)]

\* lines 187-204: one iteration
MarkersBody(s, markers) ==
    LET cur == s.current
        count == MarkerCount(cur, markers)
    IN  IF StatRaises(cur)
        THEN [s EXCEPT !.depth = s.depth + 1, !.broke = TRUE]
        ELSE IF ~Exists(cur) \/ ~IsDirAt(cur)
        THEN [s EXCEPT !.depth = s.depth + 1, !.current = Parent(cur)]
        ELSE IF tree[cur].name \in NonRootDirNames
        THEN [s EXCEPT !.depth = s.depth + 1, !.current = Parent(cur)]
        ELSE [s EXCEPT !.depth = s.depth + 1,
                       !.candidates = IF count > 0
                                      THEN DictSet(s.candidates, cur, count)
                                      ELSE s.candidates,
                       !.current = Parent(cur)]

RECURSIVE MarkersLoop(_, _)
MarkersLoop(s, markers) ==
    IF MarkersCond(s) THEN MarkersLoop(MarkersBody(s, markers), markers) ELSE s

\* a return that takes the first recorded candidate, whatever its count
MarkersReturnFirst(s) ==
    IF s.candidates = <<>> THEN NoneValue ELSE DirPath(Head(s.candidates).key)

\* lines 208-211: the value returned after the loop
MarkersReturn(s) ==
    IF s.candidates = <<>> THEN NoneValue ELSE DirPath(MaxByCount(s.candidates).key)

\* _find_by_markers(markers): the returned Optional[Path], or the exception
\* that current.is_file() (line 182, outside the try) lets escape
FindByMarkersAt(i, markers) ==
    IF StatRaises(i) THEN RaisedException
    ELSE MarkersReturn(MarkersLoop(MarkersStartAt(i), EffectiveMarkers(markers)))

FindByMarkers(markers) == FindByMarkersAt(1, markers)

(***************************************************************************)
(* Structure heuristic: _find_by_structure.                                *)
(* The loop state: current, depth, result (None until the loop returns or  *)
(* raises).                                                                *)
(***************************************************************************)
\* lines 218-219, for a resolver whose start_path is position i of the chain
StructureStartAt(i) == [current |-> i, depth |-> 0, result |-> NoneValue]

StructureStart == StructureStartAt(1)

\* a loop condition that does not stop at the directory that is its own parent
StructureCondNoRootStop(s) ==
    /\ s.result = NoneValue
    /\ s.depth < MaxTraversalDepth

\* line 221
StructureCond(s) ==
    /\ s.result = NoneValue
    /\ s.current # Parent(s.current)
    /\ s.depth < MaxTraversalDepth

\* an iteration that is content with either of the two conditions
StructureBodyEitherCondition(s) ==
    LET cur == s.current
    IN  IF StatRaises(cur)
        THEN [s EXCEPT !.depth = s.depth + 1, !.result = RaisedException]
        ELSE IF (ChildIsDir(cur, "src") \/ ChildIsDir(cur, "lib")) \/ GlobPy(cur) # {}
        THEN [s EXCEPT !.depth = s.depth + 1, !.result = DirPath(cur)]
        ELSE [s EXCEPT !.depth = s.depth + 1, !.current = Parent(cur)]

\* lines 222-230
StructureBody(s) ==
    LET cur == s.current
    IN  IF StatRaises(cur)
        THEN [s EXCEPT !.depth = s.depth + 1, !.result = RaisedException]
        ELSE IF (ChildIsDir(cur, "src") \/ ChildIsDir(cur, "lib")) /\ GlobPy(cur) # {}
        THEN [s EXCEPT !.depth = s.depth + 1, !.result = DirPath(cur)]
        ELSE [s EXCEPT !.depth = s.depth + 1, !.current = Parent(cur)]

RECURSIVE StructureLoop(_)
StructureLoop(s) ==
    IF StructureCond(s) THEN StructureLoop(StructureBody(s)) ELSE s

FindByStructureAt(i) == StructureLoop(StructureStartAt(i)).result

FindByStructure == FindByStructureAt(1)

(***************************************************************************)
(* The orchestrator: find_root.                                            *)
(* call[t] holds the locals of the call thread t is in: inst (self), arg   *)
(* (search_methods as given), methods (the list iterated), idx (position   *)
(* of the for loop), ret (what the call returned or raised), and two       *)
(* records kept for the properties: log (one entry per list entry taken    *)
(* so far: its name and what came of it) and prior (what earlier calls on  *)
(* the instance had returned when this call began).                        *)
(***************************************************************************)
Skipped == [tag |-> "Skipped", at |-> 0, text |-> <<>>]

MethodNames == MethodMapKeys \cup {"nonexistent"}

MethodLists ==
    {NoneArg} \cup UNION {[1..n -> MethodNames] : n \in 0..MaxMethods}

NoCall ==
    [inst |-> "f1", arg |-> NoneArg, methods |-> <<>>, idx |-> 0,
     ret |-> NoneValue, log |-> <<>>, prior |-> NoneValue]

\* no ensure_search_path call is running
NoEnsure == [pc |-> "idle", root |-> NoneValue]
\* a process whose stack, entry script and working directory tell nothing
NoProc == [stack |-> <<>>, argv0 |-> "empty", cwd |-> "deleted"]
\* no _get_caller_project_path call is running
NoResolve == [pc |-> "idle", consulted |-> <<>>, result |-> NoneValue]

\* finder(): the results the strategy bound to name can produce
Finder(name) ==
    CASE name = "git" -> {FindByGit(r) : r \in SubprocessRun}
      [] name = "svn" -> {FindBySvn(r) : r \in SubprocessRun}
      [] name = "hg" -> {FindByHg(r) : r \in SubprocessRun}
      [] name = "markers" -> {FindByMarkers(NoneArg)}
      [] name = "structure" -> {FindByStructure}

\* the first path find_root handed out on instance f
NoteReturned(f, v) ==
    [returned EXCEPT ![f] = IF returned[f] = NoneValue THEN v ELSE returned[f]]

\* an entry that takes an empty list, like None, for the default list
FindRootEnterEmptyMeansDefault(t, f, ms) ==
    /\ pc[t] = "idle"
    /\ IF Truthy(cache[f])
       THEN /\ pc' = [pc EXCEPT ![t] = "done"]
            /\ call' = [call EXCEPT ![t] =
                    [inst |-> f, arg |-> ms, methods |-> <<>>, idx |-> 0,
                     ret |-> cache[f], log |-> <<>>, prior |-> returned[f]]]
            /\ returned' = NoteReturned(f, cache[f])
       ELSE /\ pc' = [pc EXCEPT ![t] = "loop"]
            /\ call' = [call EXCEPT ![t] =
                    [inst |-> f, arg |-> ms,
                     methods |-> IF ms = NoneArg \/ ms = <<>>
                                 THEN DefaultSearchMethods ELSE ms,
                     idx |-> 1, ret |-> NoneValue, log |-> <<>>,
                     prior |-> returned[f]]]
            /\ UNCHANGED returned
    /\ UNCHANGED <<sysPath, ensure, proc, resolve, tree, cache, markersArg, walk>>

\* an entry that never consults the cache
FindRootEnterNoCacheCheck(t, f, ms) ==
    /\ pc[t] = "idle"
    /\ pc' = [pc EXCEPT ![t] = "loop"]
    /\ call' = [call EXCEPT ![t] =
            [inst |-> f, arg |-> ms,
             methods |-> IF ms = NoneArg THEN DefaultSearchMethods ELSE ms,
             idx |-> 1, ret |-> NoneValue, log |-> <<>>,
             prior |-> returned[f]]]
    /\ UNCHANGED <<sysPath, ensure, proc, resolve, tree, cache, returned, markersArg, walk>>

\* lines 238-242: the cache check and the default list
FindRootEnter(t, f, ms) ==
    /\ pc[t] = "idle"
    /\ IF Truthy(cache[f])
       THEN /\ pc' = [pc EXCEPT ![t] = "done"]
            /\ call' = [call EXCEPT ![t] =
                    [inst |-> f, arg |-> ms, methods |-> <<>>, idx |-> 0,
                     ret |-> cache[f], log |-> <<>>, prior |-> returned[f]]]
            /\ returned' = NoteReturned(f, cache[f])
       ELSE /\ pc' = [pc EXCEPT ![t] = "loop"]
            /\ call' = [call EXCEPT ![t] =
                    [inst |-> f, arg |-> ms,
                     methods |-> IF ms = NoneArg THEN DefaultSearchMethods ELSE ms,
                     idx |-> 1, ret |-> NoneValue, log |-> <<>>,
                     prior |-> returned[f]]]
            /\ UNCHANGED returned
    /\ UNCHANGED <<sysPath, ensure, proc, resolve, tree, cache, markersArg, walk>>

\* a call record that passes over the entry after the one just taken
TakenSkipsNext(c, r) ==
    [c EXCEPT !.idx = c.idx + 2,
              !.log = Append(c.log, [name |-> c.methods[c.idx], result |-> r])]

\* the call record after the entry at idx came to r
Taken(c, r) ==
    [c EXCEPT !.idx = c.idx + 1,
              !.log = Append(c.log, [name |-> c.methods[c.idx], result |-> r])]

\* lines 254-256: method_map has no such name: warn and continue
\* an unknown name that ends the call with root-not-found
SkipUnknownFatal(t) ==
    /\ call' = [call EXCEPT ![t] = [Taken(call[t], Skipped) EXCEPT !.ret = FileNotFoundError]]
    /\ pc' = [pc EXCEPT ![t] = "done"]
    /\ UNCHANGED <<cache, returned>>

SkipUnknown(t) ==
    /\ call' = [call EXCEPT ![t] = Taken(call[t], Skipped)]
    /\ UNCHANGED <<pc, cache, returned>>

\* lines 260-264: finder() raised: warn and continue
\* a finder() exception that leaves find_root
CatchExceptionPropagates(t) ==
    /\ call' = [call EXCEPT ![t] =
            [Taken(call[t], RaisedException) EXCEPT !.ret = RaisedException]]
    /\ pc' = [pc EXCEPT ![t] = "done"]
    /\ UNCHANGED <<cache, returned>>

CatchException(t) ==
    /\ call' = [call EXCEPT ![t] = Taken(call[t], RaisedException)]
    /\ UNCHANGED <<pc, cache, returned>>

\* line 266 with a falsy result: on to the next name
NextMethod(t, r) ==
    /\ call' = [call EXCEPT ![t] = Taken(call[t], r)]
    /\ UNCHANGED <<pc, cache, returned>>

\* lines 266-268: cache the result and return it
\* a return of the result that leaves the cache unwritten
ReturnFoundNoCacheWrite(t, r) ==
    /\ call' = [call EXCEPT ![t] = [Taken(call[t], r) EXCEPT !.ret = r]]
    /\ pc' = [pc EXCEPT ![t] = "done"]
    /\ returned' = NoteReturned(call[t].inst, r)
    /\ UNCHANGED cache

\* a return that looks at the cache again and writes an empty slot only
ReturnFoundChecksAgain(t, r) ==
    /\ cache' = [cache EXCEPT ![call[t].inst] =
                    IF cache[call[t].inst] = NoneValue THEN r ELSE cache[call[t].inst]]
    /\ call' = [call EXCEPT ![t] = [Taken(call[t], r) EXCEPT !.ret = r]]
    /\ pc' = [pc EXCEPT ![t] = "done"]
    /\ returned' = NoteReturned(call[t].inst, r)

\* a return that stores the result in the cache of every resolver
ReturnFoundWritesEverySlot(t, r) ==
    /\ cache' = [f \in Instances |-> r]
    /\ call' = [call EXCEPT ![t] = [Taken(call[t], r) EXCEPT !.ret = r]]
    /\ pc' = [pc EXCEPT ![t] = "done"]
    /\ returned' = NoteReturned(call[t].inst, r)

ReturnFound(t, r) ==
    /\ cache' = [cache EXCEPT ![call[t].inst] = r]
    /\ call' = [call EXCEPT ![t] = [Taken(call[t], r) EXCEPT !.ret = r]]
    /\ pc' = [pc EXCEPT ![t] = "done"]
    /\ returned' = NoteReturned(call[t].inst, r)

\* lines 252-268: one iteration of `for method_name in search_methods`
FindRootStep(t) ==
    /\ pc[t] = "loop"
    /\ call[t].idx <= Len(call[t].methods)
    /\ LET name == call[t].methods[call[t].idx]
       IN  IF name \notin MethodMapKeys
           THEN SkipUnknown(t)
           ELSE \E r \in Finder(name) :
                  IF r = RaisedException THEN CatchException(t)
                  ELSE IF Truthy(r) THEN ReturnFound(t, r)
                  ELSE NextMethod(t, r)
    /\ UNCHANGED <<sysPath, ensure, proc, resolve, tree, markersArg, walk>>

\* an exhausted list whose failure is stored in the cache
FindRootRaiseCachesFailure(t) ==
    /\ pc[t] = "loop"
    /\ call[t].idx > Len(call[t].methods)
    /\ call' = [call EXCEPT ![t].ret = FileNotFoundError]
    /\ pc' = [pc EXCEPT ![t] = "done"]
    /\ cache' = [cache EXCEPT ![call[t].inst] = FileNotFoundError]
    /\ UNCHANGED <<sysPath, ensure, proc, resolve, tree, returned, markersArg, walk>>

\* an exhausted list that returns None instead of raising
FindRootRaiseReturnsNone(t) ==
    /\ pc[t] = "loop"
    /\ call[t].idx > Len(call[t].methods)
    /\ call' = [call EXCEPT ![t].ret = NoneValue]
    /\ pc' = [pc EXCEPT ![t] = "done"]
    /\ UNCHANGED <<sysPath, ensure, proc, resolve, tree, cache, returned, markersArg, walk>>

\* line 270: the list is exhausted
FindRootRaise(t) ==
    /\ pc[t] = "loop"
    /\ call[t].idx > Len(call[t].methods)
    /\ call' = [call EXCEPT ![t].ret = FileNotFoundError]
    /\ pc' = [pc EXCEPT ![t] = "done"]
    /\ UNCHANGED <<sysPath, ensure, proc, resolve, tree, cache, returned, markersArg, walk>>

\* lines 239, 268, 270: control is back with the caller of find_root
FindRootReturn(t) ==
    /\ pc[t] = "done"
    /\ pc' = [pc EXCEPT ![t] = "idle"]
    /\ call' = [call EXCEPT ![t] = NoCall]
    /\ UNCHANGED <<sysPath, ensure, proc, resolve, tree, cache, returned, markersArg, walk>>

(***************************************************************************)
(* Sequential use of the resolvers: one thread, calls one after another.   *)
(***************************************************************************)
\* the start directory of the resolvers: with or without a marker file and
\* a src/ layout, or unreadable
StartDirs ==
    {Dir("app", "dir", e, e \cap {"src"}) : e \in SUBSET {"setup.py", "src"}}
        \cup {Dir("app", "denied", {}, {})}

\* between the start directory and the filesystem root: nothing, or a
\* directory that cannot be read
MiddleDirs == {<<>>, <<Dir("app", "denied", {}, {})>>}

Init ==
    /\ tree \in {<<d>> \o m \o <<RootDir({}, {})>> : d \in StartDirs, m \in MiddleDirs}
    /\ cache = [f \in Instances |-> NoneValue]
    /\ pc = [t \in Threads |-> "idle"]
    /\ call = [t \in Threads |-> NoCall]
    /\ returned = [f \in Instances |-> NoneValue]
    /\ sysPath = <<>>
    /\ ensure = NoEnsure
    /\ proc = NoProc
    /\ resolve = NoResolve
    /\ markersArg = NoneArg
    /\ walk = [fn |-> "none", pc |-> "idle", s |-> <<>>, result |-> NoneValue]

Next ==
    \/ \E f \in Instances, ms \in MethodLists : FindRootEnter(MainThread, f, ms)
    \/ FindRootStep(MainThread)
    \/ FindRootRaise(MainThread)
    \/ FindRootReturn(MainThread)

Spec == Init /\ [][Next]_vars

(***************************************************************************)
(* Properties of find_root under sequential use (Spec).                    *)
(***************************************************************************)
Last(q) == q[Len(q)]

\* the list a call is configured with
ConfiguredList(c) == IF c.arg = NoneArg THEN DefaultSearchMethods ELSE c.arg

\* the call of thread t has ended
Ended(t) == pc[t] = "done"
\* ... and had found the cache empty when it began
EndedUncached(t) == pc[t] = "done" /\ call[t].idx > 0

IsInvocation(e) == e.result # Skipped
IsKnownName(n) == n \in MethodMapKeys
Invocations(c) == SelectSeq(c.log, IsInvocation)

\* C1: once a find_root call on an instance has returned a path, every later
\* call on that instance, whatever its strategy list, returns that same path
\* and takes no entry of its list (no strategy is invoked).
C1_CachedResultIsFinal ==
    \A t \in Threads :
        (Ended(t) /\ call[t].prior # NoneValue) =>
            /\ call[t].ret = call[t].prior
            /\ call[t].log = <<>>

\* a later call with a list whose only strategy finds nothing, on an instance
\* whose earlier call returned a path
C1_Witness ==
    /\ Ended(MainThread)
    /\ call[MainThread].prior # NoneValue
    /\ call[MainThread].arg = <<"structure">>
    /\ FindByStructure = NoneValue
    /\ call[MainThread].ret = call[MainThread].prior

\* C2: on an instance with an empty cache, find_root returns the path of the
\* first strategy in list order that yields a path, stores exactly that path
\* in the cache, and invokes no later strategy of the list.
C2_FirstSuccessWins ==
    \A t \in Threads :
        (EndedUncached(t) /\ Truthy(call[t].ret)) =>
            LET c == call[t]
                k == Len(c.log)
            IN  /\ k \in 1..Len(c.methods)
                /\ \A j \in 1..k : c.log[j].name = c.methods[j]
                /\ c.log[k].result = c.ret
                /\ \A j \in 1..(k - 1) : ~Truthy(c.log[j].result)
                /\ cache[c.inst] = c.ret
                /\ c.idx = k + 1

\* the default list: git finds nothing, svn prints a path, and hg, markers
\* and structure are never invoked although markers would find the start dir
C2_Witness ==
    /\ EndedUncached(MainThread)
    /\ call[MainThread].arg = NoneArg
    /\ Len(call[MainThread].log) = 2
    /\ call[MainThread].ret = TextPath(<<"r">>)
    /\ Truthy(FindByMarkers(NoneArg))

\* every entry of the configured list was taken and none yielded a path
AllReturnedNotFound(c) ==
    /\ Len(c.log) = Len(ConfiguredList(c))
    /\ \A k \in DOMAIN c.log : ~Truthy(c.log[k].result)

\* no entry of the list can yield a path in the present environment
NoStrategyCanFind(ms) ==
    \A k \in DOMAIN ms :
        IsKnownName(ms[k]) => \A r \in Finder(ms[k]) : ~Truthy(r)

\* C3 (as stated): find_root raises root-not-found if and only if every
\* strategy in the configured list returns "not found".
C3_RaisesIffAllNotFound ==
    \A t \in Threads :
        Ended(t) =>
            /\ (call[t].ret = FileNotFoundError) => AllReturnedNotFound(call[t])
            /\ NoStrategyCanFind(ConfiguredList(call[t]))
                    => (call[t].ret = FileNotFoundError)

\* C3 (amended): on an instance whose cache is empty, find_root raises
\* root-not-found if and only if every entry of the configured list yields
\* "not found" (a raised exception and an unknown name counting as such).
C3_RaisesIffAllNotFoundUncached ==
    \A t \in Threads :
        EndedUncached(t) =>
            /\ (call[t].ret = FileNotFoundError) <=> AllReturnedNotFound(call[t])
            /\ NoStrategyCanFind(ConfiguredList(call[t]))
                    => (call[t].ret = FileNotFoundError)

\* markers and structure were both invoked, both found nothing, and the call
\* raised
C3_Witness ==
    /\ EndedUncached(MainThread)
    /\ call[MainThread].arg = <<"markers", "structure">>
    /\ Len(call[MainThread].log) = 2
    /\ call[MainThread].log[1].result = NoneValue
    /\ call[MainThread].ret = FileNotFoundError

\* C4: an exception raised by a known strategy never leaves find_root: the
\* strategy counts as "not found", the cache stays empty, and the loop goes
\* on with the next entry of the list.
C4_StrategyExceptionContained ==
    /\ [](\A t \in Threads : call[t].ret # RaisedException)
    /\ [][\A t \in Threads :
            (/\ pc[t] = "loop"
             /\ Len(call'[t].log) = Len(call[t].log) + 1
             /\ Last(call'[t].log).result = RaisedException)
            => /\ cache' = cache
               /\ cache'[call[t].inst] = NoneValue
               /\ pc'[t] = "loop"
               /\ call'[t].ret = NoneValue
               /\ call'[t].idx = call[t].idx + 1]_vars

\* structure raised on the unreadable parent directory, git was tried next
\* and its path was returned
C4_Witness ==
    /\ Ended(MainThread)
    /\ call[MainThread].arg = <<"structure", "git">>
    /\ Len(call[MainThread].log) = 2
    /\ call[MainThread].log[1].result = RaisedException
    /\ Truthy(call[MainThread].ret)

\* C5: a name outside the method map is not fatal: it is skipped without
\* invoking anything and the next name is taken, so the call ends as the
\* list without the unknown names would: the strategies invoked are, in
\* order, the known names of the list up to the first that yields a path,
\* whose path is returned; root-not-found is raised when all known names
\* were invoked and none yielded a path.
C5_UnknownNamesSkipped ==
    \A t \in Threads :
        EndedUncached(t) =>
            LET c == call[t]
                inv == Invocations(c)
                known == SelectSeq(c.methods, IsKnownName)
                n == Len(inv)
            IN  /\ \A k \in DOMAIN c.log :
                        (c.log[k].result = Skipped) <=> ~IsKnownName(c.methods[k])
                /\ n <= Len(known)
                /\ \A k \in 1..n : inv[k].name = known[k]
                /\ \A k \in 1..(n - 1) : ~Truthy(inv[k].result)
                /\ c.ret \in {FileNotFoundError} \cup {inv[k].result : k \in {n} \ {0}}
                /\ (c.ret = FileNotFoundError) <=>
                        (n = Len(known) /\ \A k \in 1..n : ~Truthy(inv[k].result))
                /\ Truthy(c.ret) <=> (n > 0 /\ Truthy(inv[n].result))

\* the list ["nonexistent", "markers"]: the unknown name was skipped and the
\* markers result returned
C5_Witness ==
    /\ EndedUncached(MainThread)
    /\ call[MainThread].arg = <<"nonexistent", "markers">>
    /\ call[MainThread].log[1].result = Skipped
    /\ call[MainThread].ret = DirPath(1)

\* C6: every outcome of find_root is a path that denotes an existing
\* directory, whichever strategy produced it, or the root-not-found failure.
C6_OutcomeIsValidDirectoryOrNotFound ==
    \A t \in Threads :
        Ended(t) =>
            call[t].ret = FileNotFoundError \/ IsValidDirectory(call[t].ret)

(***************************************************************************)
(* _find_by_markers applied to bounded filesystems (SpecMarkers).          *)
(* A chain is: optionally a file (the start path), up to MaxNear freely    *)
(* drawn directories, a run of plain directories (none, or enough to bring *)
(* the far directory next to the 50-hop bound), one far directory, and the *)
(* filesystem root.                                                        *)
(***************************************************************************)
DirNames == {"app", ".venv"}
MarkerEntrySets == {{}, {"Makefile"}, {"setup.py", "Makefile"}}

MarkerDirs ==
    {Dir(n, "dir", e, {}) : n \in DirNames, e \in MarkerEntrySets}
        \cup {Dir("app", "missing", {}, {}), Dir("app", "denied", {}, {})}

FarDirs ==
    {Dir("app", "dir", e, {}) : e \in MarkerEntrySets}
        \cup {Dir("app", "denied", {}, {})}
RootDirs == {RootDir(e, {}) : e \in {{}, {"setup.py", "Makefile"}}}
StartFiles == {<<>>, <<Dir("main.py", "file", {}, {})>>}

Filler(n) == [k \in 1..n |-> PlainDir]
\* the run of plain directories above n freely drawn ones: none, or as many
\* as put the far directory 49 or 50 parent steps above the start directory
FillLengths(n) ==
    {0, MaxTraversalDepth - 1 - n, MaxTraversalDepth - n}

NearSeqs(D) == UNION {[1..n -> D] : n \in 0..MaxNear}

\* the lower end of a chain: the start file, if there is one, and the
\* directories drawn freely above it; a start path that is a file lies in a
\* directory that exists and can be read
LowerEnds(D) ==
    {p \in StartFiles \X NearSeqs(D) :
        (p[1] # <<>> /\ p[2] # <<>>) => p[2][1].kind = "dir"}

MarkerChains ==
    UNION {{p[1] \o p[2] \o Filler(n) \o <<far, root>> :
                n \in FillLengths(Len(p[2])),
                far \in FarDirs, root \in RootDirs} :
           p \in LowerEnds(MarkerDirs)}

MarkerArgs == {NoneArg, <<>>, <<"setup.py">>}

\* finder._find_by_markers(markers): runs to its return (or its exception)
CallFindByMarkers ==
    /\ walk.pc = "idle"
    /\ walk' = [fn |-> "markers", pc |-> "done", s |-> <<>>,
                result |-> FindByMarkers(markersArg)]
    /\ UNCHANGED <<sysPath, ensure, proc, resolve, tree, cache, pc, call, returned, markersArg>>

InitMarkers ==
    /\ tree \in MarkerChains
    /\ markersArg \in MarkerArgs
    /\ walk = [fn |-> "none", pc |-> "idle", s |-> <<>>, result |-> NoneValue]
    /\ cache = [f \in Instances |-> NoneValue]
    /\ pc = [t \in Threads |-> "idle"]
    /\ call = [t \in Threads |-> NoCall]
    /\ returned = [f \in Instances |-> NoneValue]
    /\ sysPath = <<>>
    /\ ensure = NoEnsure
    /\ proc = NoProc
    /\ resolve = NoResolve

NextMarkers == CallFindByMarkers

SpecMarkers == InitMarkers /\ [][NextMarkers]_vars

(***************************************************************************)
(* Properties of marker scoring (SpecMarkers).                             *)
(***************************************************************************)
MarkersDone == walk.pc = "done" /\ walk.fn = "markers"

\* the directory the traversal starts from, and the positions of the chain
\* from there up to and including the filesystem root
Origin == IF IsFileAt(1) THEN 2 ELSE 1
Ancestors == Origin..Len(tree)
Hops(i) == i - Origin

\* the number of configured markers directory i holds
Count(i) == MarkerCount(i, EffectiveMarkers(markersArg))

Blocked(i) == tree[i].name \in NonRootDirNames

\* the directories the traversal scores: below the filesystem root, fewer
\* than 50 parent steps above the starting directory, reached without an
\* unreadable directory on the way, existing, and not of a blocked name
Scored(i) ==
    /\ i \in Ancestors
    /\ i < Len(tree)
    /\ Hops(i) < MaxTraversalDepth
    /\ IsDirAt(i)
    /\ ~Blocked(i)
    /\ \A j \in Origin..i : ~StatRaises(j)

\* a directory that could be scored were it not for its distance: existing,
\* not of a blocked name, below the filesystem root, not above an unreadable
\* directory
Eligible(i) ==
    /\ i \in Ancestors
    /\ i < Len(tree)
    /\ IsDirAt(i)
    /\ ~Blocked(i)
    /\ \A j \in Origin..i : ~StatRaises(j)

\* C7 (as stated): of two ancestor directories with marker counts c1 > c2
\* the one with c1 is always selected over the one with c2, however far each
\* is from the start path (read in the claim's favour: of directories that
\* exist, carry no blocked name and lie below the filesystem root).
C7_HigherCountAlwaysWins ==
    (MarkersDone /\ Truthy(walk.result)) =>
        \A i \in Ancestors :
            Eligible(i) => Count(i) <= Count(walk.result.at)

\* C7 (amended): of two directories the traversal scores (existing, not of a
\* blocked name, below the filesystem root, fewer than 50 parent steps above
\* the starting directory and not above an unreadable one) with marker
\* counts c1 > c2, the one with c1 is selected over the one with c2.
C7_HigherCountWinsAmongScored ==
    (MarkersDone /\ Truthy(walk.result)) =>
        \A i \in Ancestors :
            (Scored(i) /\ Scored(walk.result.at))
                => Count(i) <= Count(walk.result.at)

\* the start directory holds one marker, a directory 49 or more parent
\* steps above it holds two, and that far directory is returned
C7_Witness ==
    /\ MarkersDone
    /\ \E i \in Ancestors :
        /\ Scored(Origin) /\ Scored(i)
        /\ Hops(i) >= MaxTraversalDepth - 1
        /\ Count(Origin) = 1 /\ Count(i) = 2
        /\ walk.result = DirPath(i)

\* C8: when several recorded directories tie for the maximum marker count,
\* the one nearest to the start path, the first recorded, is returned.
C8_NearestWinsTie ==
    MarkersDone =>
        \A i \in Ancestors :
            (/\ Scored(i) /\ Count(i) > 0
             /\ \A j \in Ancestors : Scored(j) => Count(j) <= Count(i)
             /\ \A j \in Origin..(i - 1) : Scored(j) => Count(j) < Count(i))
            => walk.result = DirPath(i)

\* two scored directories hold the maximum count and the nearer is returned
C8_Witness ==
    /\ MarkersDone
    /\ \E i, j \in Ancestors :
        /\ i < j /\ Scored(i) /\ Scored(j)
        /\ Count(i) = 2 /\ Count(j) = 2
        /\ walk.result = DirPath(i)

\* C9: marker scoring never returns a directory of a blocked name, even one
\* that holds markers, and the traversal goes on past it: a marker-bearing
\* directory the traversal scores above a blocked one is still found.
C9_BlockedNeverReturned ==
    MarkersDone =>
        /\ \A i \in Ancestors : Blocked(i) => walk.result # DirPath(i)
        /\ \A i, b \in Ancestors :
            (b < i /\ Blocked(b) /\ Count(b) > 0 /\ Scored(i) /\ Count(i) > 0)
                => Truthy(walk.result)

\* the start directory is a .venv holding two markers, a directory above it
\* holds one marker and is the one returned
C9_Witness ==
    /\ MarkersDone
    /\ Blocked(Origin) /\ Count(Origin) = 2
    /\ \E i \in Ancestors :
        i > Origin /\ Count(i) = 1 /\ walk.result = DirPath(i)

(***************************************************************************)
(* The two upward traversals, one loop iteration at a time (SpecWalk).     *)
(* walk.fn is the method running, walk.pc its position ("idle", "loop",    *)
(* "done"), walk.s the loop state, walk.result what it returned or raised. *)
(***************************************************************************)
\* _find_by_markers up to the loop: lines 171-185
BeginMarkers ==
    /\ walk.pc = "idle"
    /\ walk' = IF StatRaises(1)
               THEN [fn |-> "markers", pc |-> "done", s |-> MarkersStart,
                     result |-> RaisedException]
               ELSE [fn |-> "markers", pc |-> "loop", s |-> MarkersStart,
                     result |-> NoneValue]
    /\ UNCHANGED <<sysPath, ensure, proc, resolve, tree, cache, pc, call, returned, markersArg>>

\* one iteration of the while loop of lines 186-204
IterateMarkers ==
    /\ walk.pc = "loop" /\ walk.fn = "markers"
    /\ MarkersCond(walk.s)
    /\ walk' = [walk EXCEPT !.s = MarkersBody(walk.s, EffectiveMarkers(markersArg))]
    /\ UNCHANGED <<sysPath, ensure, proc, resolve, tree, cache, pc, call, returned, markersArg>>

\* the loop has ended: lines 208-211
ReturnMarkers ==
    /\ walk.pc = "loop" /\ walk.fn = "markers"
    /\ ~MarkersCond(walk.s)
    /\ walk' = [walk EXCEPT !.pc = "done", !.result = MarkersReturn(walk.s)]
    /\ UNCHANGED <<sysPath, ensure, proc, resolve, tree, cache, pc, call, returned, markersArg>>

\* _find_by_structure up to the loop: lines 218-219
BeginStructure ==
    /\ walk.pc = "idle"
    /\ walk' = [fn |-> "structure", pc |-> "loop", s |-> StructureStart,
                result |-> NoneValue]
    /\ UNCHANGED <<sysPath, ensure, proc, resolve, tree, cache, pc, call, returned, markersArg>>

\* one iteration of the while loop of lines 221-230
IterateStructure ==
    /\ walk.pc = "loop" /\ walk.fn = "structure"
    /\ StructureCond(walk.s)
    /\ walk' = [walk EXCEPT !.s = StructureBody(walk.s)]
    /\ UNCHANGED <<sysPath, ensure, proc, resolve, tree, cache, pc, call, returned, markersArg>>

\* the loop has returned, raised, or run out: lines 229, 231
ReturnStructure ==
    /\ walk.pc = "loop" /\ walk.fn = "structure"
    /\ ~StructureCond(walk.s)
    /\ walk' = [walk EXCEPT !.pc = "done", !.result = walk.s.result]
    /\ UNCHANGED <<sysPath, ensure, proc, resolve, tree, cache, pc, call, returned, markersArg>>

\* directories of the chains walked: those of marker scoring and one with a
\* src/ layout and a Python file
WalkDirs == MarkerDirs \cup {Dir("app", "dir", {"src", "main.py"}, {"src"})}

\* chains that end at the filesystem root within the hop bound, and chains
\* deeper than the hop bound
WalkChains ==
    {p[1] \o p[2] \o Filler(n) \o <<RootDir({}, {})>> :
        p \in LowerEnds(WalkDirs), n \in {0, MaxTraversalDepth}}

InitWalk ==
    /\ tree \in WalkChains
    /\ markersArg = NoneArg
    /\ walk = [fn |-> "none", pc |-> "idle", s |-> <<>>, result |-> NoneValue]
    /\ cache = [f \in Instances |-> NoneValue]
    /\ pc = [t \in Threads |-> "idle"]
    /\ call = [t \in Threads |-> NoCall]
    /\ returned = [f \in Instances |-> NoneValue]
    /\ sysPath = <<>>
    /\ ensure = NoEnsure
    /\ proc = NoProc
    /\ resolve = NoResolve

NextWalk ==
    \/ BeginMarkers
    \/ IterateMarkers
    \/ ReturnMarkers
    \/ BeginStructure
    \/ IterateStructure
    \/ ReturnStructure

\* a method that was called runs on until it returns
SpecWalk == InitWalk /\ [][NextWalk]_vars /\ WF_vars(NextWalk)

\* the loop of the running method would take another iteration
LoopGoesOn(w) ==
    IF w.fn = "markers" THEN MarkersCond(w.s) ELSE StructureCond(w.s)

\* C10: the upward traversals of _find_by_markers and _find_by_structure
\* terminate: an iteration after which the loop goes on has moved strictly
\* to the parent directory, every iteration counts one hop, and the loop ends
\* at the filesystem root or after at most 50 iterations, whichever comes
\* first (unless it has returned or an exception has ended it before).
C10_TraversalsTerminate ==
    /\ <>(walk.pc = "done")
    /\ [](walk.pc = "loop" =>
            /\ walk.s.depth <= MaxTraversalDepth
            /\ walk.s.current \in 1..Len(tree))
    /\ [](walk.pc = "done" /\ walk.result = NoneValue /\ walk.fn = "structure" =>
            walk.s.current = Len(tree) \/ walk.s.depth = MaxTraversalDepth)
    /\ [](walk.pc = "done" /\ walk.fn = "markers" /\ walk.result # RaisedException =>
            walk.s.broke \/ walk.s.current = Len(tree)
                \/ walk.s.depth = MaxTraversalDepth)
    /\ [][(walk.pc = "loop" /\ walk'.pc = "loop") =>
            /\ walk'.s.depth = walk.s.depth + 1
            /\ LoopGoesOn(walk') =>
                /\ walk'.s.current = walk.s.current + 1
                /\ walk'.s.current = Parent(walk.s.current)]_vars

\* a chain deeper than the hop bound: marker scoring stopped after 50
\* iterations, below the filesystem root
C10_Witness ==
    /\ walk.pc = "done" /\ walk.fn = "markers"
    /\ walk.s.depth = MaxTraversalDepth
    /\ walk.s.current < Len(tree)

(***************************************************************************)
(* The VCS probes called on their own (SpecVcs): walk.fn is the probe,     *)
(* walk.s what subprocess.run did, walk.result what the probe returned.    *)
(***************************************************************************)
CallFindByGit ==
    /\ walk.pc = "idle"
    /\ \E r \in SubprocessRun :
        walk' = [fn |-> "git", pc |-> "done", s |-> r, result |-> FindByGit(r)]
    /\ UNCHANGED <<sysPath, ensure, proc, resolve, tree, cache, pc, call, returned, markersArg>>

CallFindBySvn ==
    /\ walk.pc = "idle"
    /\ \E r \in SubprocessRun :
        walk' = [fn |-> "svn", pc |-> "done", s |-> r, result |-> FindBySvn(r)]
    /\ UNCHANGED <<sysPath, ensure, proc, resolve, tree, cache, pc, call, returned, markersArg>>

CallFindByHg ==
    /\ walk.pc = "idle"
    /\ \E r \in SubprocessRun :
        walk' = [fn |-> "hg", pc |-> "done", s |-> r, result |-> FindByHg(r)]
    /\ UNCHANGED <<sysPath, ensure, proc, resolve, tree, cache, pc, call, returned, markersArg>>

\* start paths of the probes: directories, a file, a path that is gone
VcsStarts ==
    StartDirs \cup {Dir("main.py", "file", {}, {}), Dir("app", "missing", {}, {})}

InitVcs ==
    /\ tree \in {<<d>> \o m \o <<RootDir({}, {})>> : d \in VcsStarts, m \in MiddleDirs}
    /\ markersArg = NoneArg
    /\ walk = [fn |-> "none", pc |-> "idle", s |-> <<>>, result |-> NoneValue]
    /\ cache = [f \in Instances |-> NoneValue]
    /\ pc = [t \in Threads |-> "idle"]
    /\ call = [t \in Threads |-> NoCall]
    /\ returned = [f \in Instances |-> NoneValue]
    /\ sysPath = <<>>
    /\ ensure = NoEnsure
    /\ proc = NoProc
    /\ resolve = NoResolve

NextVcs ==
    \/ CallFindByGit
    \/ CallFindBySvn
    \/ CallFindByHg

SpecVcs == InitVcs /\ [][NextVcs]_vars

ProbeDone == walk.pc = "done" /\ walk.fn \in {"git", "svn", "hg"}

\* C11: a VCS probe never raises: when the external command fails (non-zero
\* exit, timeout, missing executable, any exception) or prints nothing but
\* whitespace the probe returns "not found"; otherwise it returns a path whose
\* text is the output without its leading and trailing whitespace.
C11_VcsProbeNeverRaises ==
    ProbeDone =>
        LET r == walk.s
            out == r.stdout
            res == walk.result
        IN  /\ res # RaisedException
            /\ res.tag \in {"None", "Path"}
            /\ (res = NoneValue) <=>
                    (~r.ok \/ \A k \in DOMAIN out : out[k] \in Whitespace)
            /\ res # NoneValue =>
                    /\ res.at = 0
                    /\ res.text # <<>>
                    /\ Head(res.text) \notin Whitespace
                    /\ Last(res.text) \notin Whitespace
                    /\ \E a, b \in DOMAIN out :
                        /\ res.text = SubSeq(out, a, b)
                        /\ \A k \in DOMAIN out :
                            (k < a \/ k > b) => out[k] \in Whitespace

\* the svn command timed out and the probe returned "not found"
C11_Witness ==
    /\ ProbeDone
    /\ walk.fn = "svn"
    /\ walk.s = Raises("TimeoutExpired")
    /\ walk.result = NoneValue

(***************************************************************************)
(* ensure_search_path (SpecPath): get_root_path builds a resolver, calls   *)
(* find_root with the default list, and the root goes to sys.path.         *)
(* ensure.pc is "idle", "resolving" (inside get_root_path), "returned" or  *)
(* "raised"; ensure.root is what get_root_path gave.                       *)
(***************************************************************************)
\* the resolver object get_root_path builds on every call
FreshInstance == "f1"

\* the elements of a sequence
Range(q) == {q[k] : k \in DOMAIN q}

\* the text of the absolute path of the directory at position i: the names
\* from the filesystem root down to it
PathText(i) == [k \in 1..(Len(tree) + 1 - i) |-> tree[Len(tree) + 1 - k].name]

\* str(path)
Str(p) == IF p.at > 0 THEN PathText(p.at) ELSE p.text

\* line 282: finder = ProjectRootFinder(start_path), a new object whose
\* cache is empty (line 46)
EnsureSearchPathBegin ==
    /\ ensure.pc = "idle"
    /\ pc[MainThread] = "idle"
    /\ ensure' = [pc |-> "resolving", root |-> NoneValue]
    /\ cache' = [cache EXCEPT ![FreshInstance] = NoneValue]
    /\ returned' = [returned EXCEPT ![FreshInstance] = NoneValue]
    /\ UNCHANGED <<tree, pc, call, markersArg, walk, sysPath, proc, resolve>>

\* line 283: finder.find_root(search_methods) with search_methods None
EnsureFindRoot ==
    /\ ensure.pc = "resolving"
    /\ FindRootEnter(MainThread, FreshInstance, NoneArg)

\* an append that does not look whether the root is on the path already
EnsureSearchPathAppendAlways ==
    /\ ensure.pc = "resolving"
    /\ pc[MainThread] = "done"
    /\ Truthy(call[MainThread].ret)
    /\ sysPath' = Append(sysPath, Str(call[MainThread].ret))
    /\ ensure' = [pc |-> "returned", root |-> call[MainThread].ret]
    /\ pc' = [pc EXCEPT ![MainThread] = "idle"]
    /\ call' = [call EXCEPT ![MainThread] = NoCall]
    /\ UNCHANGED <<tree, cache, returned, markersArg, walk, proc, resolve>>

\* lines 288-294: get_root_path returned a path
EnsureSearchPathAppend ==
    /\ ensure.pc = "resolving"
    /\ pc[MainThread] = "done"
    /\ Truthy(call[MainThread].ret)
    /\ LET root_path == Str(call[MainThread].ret)
       IN  sysPath' = IF root_path \notin Range(sysPath)
                      THEN Append(sysPath, root_path)
                      ELSE sysPath
    /\ ensure' = [pc |-> "returned", root |-> call[MainThread].ret]
    /\ pc' = [pc EXCEPT ![MainThread] = "idle"]
    /\ call' = [call EXCEPT ![MainThread] = NoCall]
    /\ UNCHANGED <<tree, cache, returned, markersArg, walk, proc, resolve>>

\* line 288: get_root_path raised FileNotFoundError, which leaves
\* ensure_search_path
EnsureSearchPathRaise ==
    /\ ensure.pc = "resolving"
    /\ pc[MainThread] = "done"
    /\ call[MainThread].ret = FileNotFoundError
    /\ ensure' = [pc |-> "raised", root |-> FileNotFoundError]
    /\ pc' = [pc EXCEPT ![MainThread] = "idle"]
    /\ call' = [call EXCEPT ![MainThread] = NoCall]
    /\ UNCHANGED <<tree, cache, returned, markersArg, walk, sysPath, proc, resolve>>

\* control is back with the caller of ensure_search_path
EnsureSearchPathReturn ==
    /\ ensure.pc \in {"returned", "raised"}
    /\ ensure' = NoEnsure
    /\ UNCHANGED <<tree, cache, pc, call, returned, markersArg, walk,
                   sysPath, proc, resolve>>

\* start directories: one with a marker file, one with nothing to find
PathStarts == {Dir("app", "dir", {"setup.py"}, {}), PlainDir}

\* sys.path when the program starts: empty, or holding the text "r"
InitialSysPaths == {<<>>, << <<"r">> >>}

InitPath ==
    /\ tree \in {<<d, RootDir({}, {})>> : d \in PathStarts}
    /\ sysPath \in InitialSysPaths
    /\ ensure = NoEnsure
    /\ cache = [f \in Instances |-> NoneValue]
    /\ pc = [t \in Threads |-> "idle"]
    /\ call = [t \in Threads |-> NoCall]
    /\ returned = [f \in Instances |-> NoneValue]
    /\ markersArg = NoneArg
    /\ walk = [fn |-> "none", pc |-> "idle", s |-> <<>>, result |-> NoneValue]
    /\ proc = NoProc
    /\ resolve = NoResolve

NextPath ==
    \/ EnsureSearchPathBegin
    \/ EnsureFindRoot
    \/ FindRootStep(MainThread)
    \/ FindRootRaise(MainThread)
    \/ EnsureSearchPathAppend
    \/ EnsureSearchPathRaise
    \/ EnsureSearchPathReturn

SpecPath == InitPath /\ [][NextPath]_vars

\* the number of times x occurs in the sequence q
Occurrences(q, x) == Cardinality({k \in DOMAIN q : q[k] = x})

\* C12: ensure_search_path is idempotent on sys.path: when it has returned,
\* the text of the resolved root is on the path; a call whose root is on the
\* path already leaves the path unchanged; the path changes only by the
\* append of a root that was not on it, so that over any sequence of calls no
\* root is appended more than once.
C12_EnsureSearchPathIdempotent ==
    /\ [](ensure.pc = "returned" => Str(ensure.root) \in Range(sysPath))
    /\ [](\A x \in Range(sysPath) : Occurrences(sysPath, x) = 1)
    /\ [][(ensure.pc = "resolving" /\ ensure'.pc = "returned"
              /\ Str(ensure'.root) \in Range(sysPath))
            => sysPath' = sysPath]_vars
    /\ [][sysPath' # sysPath =>
            /\ ensure.pc = "resolving" /\ ensure'.pc = "returned"
            /\ Str(ensure'.root) \notin Range(sysPath)
            /\ sysPath' = Append(sysPath, Str(ensure'.root))]_vars

\* a first call appended the start directory, a second call appended the
\* path git printed, and a third call resolved the start directory again and
\* left the path as it was
C12_Witness ==
    /\ ensure.pc = "returned"
    /\ ensure.root = DirPath(1)
    /\ sysPath = <<PathText(1), <<"r">> >>

(***************************************************************************)
(* Start-path resolution: _get_caller_project_path (SpecResolve).          *)
(* proc.stack is inspect.stack()[1:], a frame being its kind and the name  *)
(* of the directory of its file: "ipykernel" (a Jupyter temporary file),   *)
(* "internal" (this library), "stdlib" (standard library or                *)
(* site-packages), "external" (an absolute file name elsewhere),           *)
(* "relative" (a file name such as <stdin> that resolve() completes with   *)
(* the working directory). proc.argv0 is "empty", "file", "missing" or     *)
(* "relative" (a name resolve() completes with the working directory and   *)
(* that names no file); proc.cwd is "ok" or "deleted".                     *)
(***************************************************************************)
FrameKinds == {"ipykernel", "internal", "stdlib", "external", "relative"}
FrameDirs == {"a", "b"}
Frames == [kind : FrameKinds, dir : FrameDirs]

\* Path.cwd(): os.getcwd() fails in a working directory that was removed
CwdPath == IF proc.cwd = "ok" THEN TextPath(<<"c">>) ELSE FileNotFoundError

\* lines 68-81: the loop over stack[1:]; Path(...).resolve() of a relative
\* file name asks for the working directory
RECURSIVE WalkStack(_)
WalkStack(stack) ==
    IF stack = <<>> THEN NoneValue
    ELSE LET frame == Head(stack)
         IN  CASE frame.kind = "ipykernel" -> WalkStack(Tail(stack))
               [] frame.kind \in {"internal", "stdlib"} -> WalkStack(Tail(stack))
               [] frame.kind = "external" -> TextPath(<<frame.dir>>)
               [] frame.kind = "relative" ->
                    IF proc.cwd = "ok" THEN CwdPath ELSE RaisedException

\* lines 63-86: _get_caller_from_stack; `except Exception: pass`
GetCallerFromStack ==
    IF WalkStack(proc.stack) = RaisedException THEN NoneValue
    ELSE WalkStack(proc.stack)

\* lines 121-132: _get_main_script_path
GetMainScriptPath ==
    IF proc.argv0 = "file" THEN TextPath(<<"m">>) ELSE NoneValue

\* line 43: __init__ with start_path None calls _get_caller_project_path
ResolveBegin ==
    /\ resolve.pc = "idle"
    /\ resolve' = [pc |-> "stack", consulted |-> <<>>, result |-> NoneValue]
    /\ UNCHANGED <<tree, cache, pc, call, returned, markersArg, walk,
                   sysPath, ensure, proc>>

\* lines 51-53
ConsultStack ==
    /\ resolve.pc = "stack"
    /\ LET caller_path == GetCallerFromStack
       IN  resolve' = [pc |-> IF Truthy(caller_path) THEN "done" ELSE "argv",
                       consulted |-> Append(resolve.consulted, "stack"),
                       result |-> caller_path]
    /\ UNCHANGED <<tree, cache, pc, call, returned, markersArg, walk,
                   sysPath, ensure, proc>>

\* lines 56-58
ConsultMainScript ==
    /\ resolve.pc = "argv"
    /\ LET main_script == GetMainScriptPath
       IN  resolve' = [pc |-> IF Truthy(main_script) THEN "done" ELSE "cwd",
                       consulted |-> Append(resolve.consulted, "argv"),
                       result |-> main_script]
    /\ UNCHANGED <<tree, cache, pc, call, returned, markersArg, walk,
                   sysPath, ensure, proc>>

\* line 61: return Path.cwd()
ConsultCwd ==
    /\ resolve.pc = "cwd"
    /\ resolve' = [pc |-> "done", consulted |-> Append(resolve.consulted, "cwd"),
                   result |-> CwdPath]
    /\ UNCHANGED <<tree, cache, pc, call, returned, markersArg, walk,
                   sysPath, ensure, proc>>

\* stack[1:] begins with the frame of _get_caller_project_path, which called
\* _get_caller_from_stack; the frames of its callers follow, one at least
\* and MaxFrames at most
OwnFrame == [kind |-> "internal", dir |-> "a"]
Stacks == {<<OwnFrame>> \o fs : fs \in UNION {[1..n -> Frames] : n \in 1..MaxFrames}}

InitResolve ==
    /\ proc \in [stack : Stacks, argv0 : {"empty", "file", "missing", "relative"},
                  cwd : {"ok", "deleted"}]
    /\ resolve = NoResolve
    /\ tree = <<PlainDir, RootDir({}, {})>>
    /\ cache = [f \in Instances |-> NoneValue]
    /\ pc = [t \in Threads |-> "idle"]
    /\ call = [t \in Threads |-> NoCall]
    /\ returned = [f \in Instances |-> NoneValue]
    /\ markersArg = NoneArg
    /\ walk = [fn |-> "none", pc |-> "idle", s |-> <<>>, result |-> NoneValue]
    /\ sysPath = <<>>
    /\ ensure = NoEnsure

NextResolve ==
    \/ ResolveBegin
    \/ ConsultStack
    \/ ConsultMainScript
    \/ ConsultCwd

SpecResolve == InitResolve /\ [][NextResolve]_vars

\* C13: with no start path given, start-path resolution never fails and
\* keeps a strict order of three tiers: the call-stack result is used if
\* there is one; otherwise the entry-script directory if there is one;
\* otherwise the working directory; a lower tier is consulted only when
\* every higher tier yielded nothing.
C13_ThreeTierResolutionNeverFails ==
    resolve.pc = "done" =>
        /\ Truthy(resolve.result)
        /\ resolve.result =
                IF Truthy(GetCallerFromStack) THEN GetCallerFromStack
                ELSE IF Truthy(GetMainScriptPath) THEN GetMainScriptPath
                ELSE CwdPath
        /\ resolve.consulted =
                IF Truthy(GetCallerFromStack) THEN <<"stack">>
                ELSE IF Truthy(GetMainScriptPath) THEN <<"stack", "argv">>
                ELSE <<"stack", "argv", "cwd">>

(***************************************************************************)
(* The markers argument and the start path of marker scoring               *)
(* (SpecMarkers).                                                          *)
(***************************************************************************)
\* C14: in marker scoring an absent or empty marker list means "use the
\* default marker set", not "use no markers": on the same tree and start
\* path the result for markers=[] and for markers=None is the result for the
\* default marker list given explicitly.
C14_EmptyMarkersMeanDefault ==
    (MarkersDone /\ markersArg \in {<<>>, NoneArg}) =>
        /\ walk.result = FindByMarkers(DefaultMarkers)
        /\ walk.result = FindByMarkers(<<>>)
        /\ walk.result = FindByMarkers(NoneArg)

\* called with markers=[] on a start directory that holds a default marker:
\* a directory is returned, where no markers at all would find nothing
C14_Witness ==
    /\ MarkersDone
    /\ markersArg = <<>>
    /\ MarkerCount(Origin, DefaultMarkers) = 2
    /\ walk.result = DirPath(Origin)
    /\ MarkersReturn(MarkersLoop(MarkersStart, <<>>)) = NoneValue

(***************************************************************************)
(* _find_by_structure applied to bounded filesystems (SpecStructure), with *)
(* _find_by_markers called on the same chains. A chain is built as for     *)
(* marker scoring; its directories may hold src or lib, as a directory or  *)
(* as a file, and the Python file setup.py.                                *)
(***************************************************************************)
\* what a directory holds: entries and, of these, the subdirectories
Layouts ==
    { [entries |-> {}, subdirs |-> {}],
      [entries |-> {"src"}, subdirs |-> {"src"}],
      [entries |-> {"setup.py"}, subdirs |-> {}],
      [entries |-> {"src", "setup.py"}, subdirs |-> {"src"}],
      [entries |-> {"src", "setup.py"}, subdirs |-> {}],
      [entries |-> {"lib", "setup.py"}, subdirs |-> {"lib"}] }

StructureDirs ==
    {Dir(n, "dir", l.entries, l.subdirs) : n \in DirNames, l \in Layouts}
        \cup {Dir("app", "missing", {}, {}), Dir("app", "denied", {}, {})}

StructureFarDirs ==
    {PlainDir} \cup {Dir(n, "dir", {"src", "setup.py"}, {"src"}) : n \in DirNames}
StructureRootDirs == {RootDir({}, {}), RootDir({"src", "setup.py"}, {"src"})}

\* a resolver started at the filesystem root, or at a file lying in it
RootStarts ==
    {f \o <<root>> : f \in StartFiles, root \in StructureRootDirs}

StructureChains ==
    UNION {{p[1] \o p[2] \o Filler(n) \o <<far, root>> :
                n \in FillLengths(Len(p[2])),
                far \in StructureFarDirs, root \in StructureRootDirs} :
           p \in LowerEnds(StructureDirs)}
        \cup RootStarts

\* finder._find_by_structure(): runs to its return (or its exception)
CallFindByStructure ==
    /\ walk.pc = "idle"
    /\ walk' = [fn |-> "structure", pc |-> "done", s |-> <<>>,
                result |-> FindByStructure]
    /\ UNCHANGED <<tree, cache, pc, call, returned, markersArg,
                   sysPath, ensure, proc, resolve>>

InitStructure ==
    /\ tree \in StructureChains
    /\ markersArg = NoneArg
    /\ walk = [fn |-> "none", pc |-> "idle", s |-> <<>>, result |-> NoneValue]
    /\ cache = [f \in Instances |-> NoneValue]
    /\ pc = [t \in Threads |-> "idle"]
    /\ call = [t \in Threads |-> NoCall]
    /\ returned = [f \in Instances |-> NoneValue]
    /\ sysPath = <<>>
    /\ ensure = NoEnsure
    /\ proc = NoProc
    /\ resolve = NoResolve

NextStructure ==
    \/ CallFindByStructure
    \/ CallFindByMarkers

SpecStructure == InitStructure /\ [][NextStructure]_vars

StructureDone == walk.pc = "done" /\ walk.fn = "structure"

\* C15: when the start path is a file, the traversals begin at its parent
\* directory: for _find_by_markers and for _find_by_structure alike, the
\* result for the file start path is the result for a resolver started at
\* the file's parent directory.
C15_FileStartEqualsParentStart ==
    IsFileAt(1) =>
        /\ MarkersDone => walk.result = FindByMarkersAt(Parent(1), markersArg)
        /\ StructureDone => walk.result = FindByStructureAt(Parent(1))

\* directory i has a direct subdirectory named src or lib
HasSourceLayout(i) ==
    /\ tree[i].kind = "dir"
    /\ tree[i].subdirs \cap {"src", "lib"} # {}

\* directory i directly contains a .py file
HasPyFile(i) ==
    /\ tree[i].kind = "dir"
    /\ tree[i].entries \cap PyNames # {}

MeetsBoth(i) == HasSourceLayout(i) /\ HasPyFile(i)

\* the positions _find_by_structure can come to: below the filesystem root,
\* within 50 iterations from the start path, with no unreadable directory
\* on the way
InReach(i) ==
    /\ i \in 1..(Len(tree) - 1)
    /\ i <= MaxTraversalDepth
    /\ \A j \in 1..i : ~StatRaises(j)

\* the positions it visits: those in reach with no directory meeting both
\* conditions below them
Visited(i) == InReach(i) /\ \A j \in 1..(i - 1) : ~MeetsBoth(j)

\* C16: _find_by_structure returns the directory nearest to the start path
\* (the start directory included, blocked names not skipped) that has a
\* direct subdirectory named src or lib and directly contains a .py file; a
\* directory meeting only one of the two conditions is never returned, and
\* "not found" is returned when no visited directory meets both.
C16_StructureReturnsNearestMeetingBoth ==
    (StructureDone /\ walk.result # RaisedException) =>
        /\ walk.result.tag \in {"None", "Path"}
        /\ \A i \in 1..Len(tree) :
            /\ (Visited(i) /\ MeetsBoth(i)) => walk.result = DirPath(i)
            /\ (walk.result = DirPath(i)) =>
                    /\ Visited(i) /\ MeetsBoth(i)
                    /\ \A j \in 1..(i - 1) : ~MeetsBoth(j)
            /\ ~MeetsBoth(i) => walk.result # DirPath(i)
        /\ (walk.result = NoneValue) <=>
                ~\E i \in 1..Len(tree) : Visited(i) /\ MeetsBoth(i)

\* the first directory has a src subdirectory but no .py file, the blocked
\* name .venv above it has both, and the .venv directory is returned
C16_Witness ==
    /\ StructureDone
    /\ \E i \in 1..Len(tree) :
        /\ HasSourceLayout(i) /\ ~HasPyFile(i)
        /\ Blocked(i + 1) /\ MeetsBoth(i + 1)
        /\ walk.result = DirPath(i + 1)

(***************************************************************************)
(* Unreadable directories in marker scoring (SpecMarkers).                 *)
(***************************************************************************)
\* the loop of a call that got past the is_file check of its start path
\* came to a directory it could not read
MetUnreadable ==
    /\ ~StatRaises(1)
    /\ \E j \in Ancestors :
        /\ StatRaises(j)
        /\ j < Len(tree)
        /\ Hops(j) < MaxTraversalDepth

\* C17 (as stated): a failure while the marker-scoring traversal reads a
\* directory is recovered locally and surfaces only as "no result" of the
\* markers strategy.
C17_ReadFailureGivesNoResult ==
    (MarkersDone /\ MetUnreadable) => walk.result = NoneValue

\* C17 (amended): a failure while the loop of the marker-scoring traversal
\* reads a directory never leaves _find_by_markers: the traversal ends at
\* that directory and the call returns the best of the candidates recorded
\* below it, or "no result" when none was recorded.
C17_ReadFailureKeepsCandidates ==
    (MarkersDone /\ MetUnreadable) =>
        /\ walk.result # RaisedException
        /\ IF \E i \in Ancestors : Scored(i) /\ Count(i) > 0
           THEN /\ Truthy(walk.result)
                /\ Scored(walk.result.at)
                /\ Count(walk.result.at) > 0
                /\ \A i \in Ancestors :
                        Scored(i) => Count(i) <= Count(walk.result.at)
           ELSE walk.result = NoneValue

\* the directory above a start directory that holds a marker cannot be
\* read, and the start directory is returned
C17_Witness ==
    /\ MarkersDone
    /\ MetUnreadable
    /\ StatRaises(Origin + 1)
    /\ Count(Origin) > 0
    /\ walk.result = DirPath(Origin)

(***************************************************************************)
(* The cache slots under sequential use (Spec).                            *)
(***************************************************************************)
\* the step in which the call of thread t executes `self._cache = result`
WritesCache(t) ==
    /\ pc[t] = "loop"
    /\ pc'[t] = "done"
    /\ Truthy(call'[t].ret)

\* C18: under sequential use the cache slot of each resolver instance is
\* written at most once over any sequence of find_root calls (every write
\* finds the slot empty and leaves it filled), its value never changes after
\* that write, and a find_root call on one instance never changes the cache
\* slot of another instance.
C18_CacheWrittenOncePerInstance ==
    /\ [][\A t \in Threads :
            WritesCache(t) =>
                /\ cache[call[t].inst] = NoneValue
                /\ cache'[call[t].inst] = call'[t].ret]_vars
    /\ [][\A f \in Instances :
            cache[f] # NoneValue => cache'[f] = cache[f]]_vars
    /\ [][\A f \in Instances :
            cache'[f] # cache[f] =>
                \E t \in Threads : WritesCache(t) /\ call[t].inst = f]_vars

\* both resolvers have filled their slots with different paths, and a later
\* call on the first one has returned from its cache
C18_Witness ==
    /\ Ended(MainThread)
    /\ call[MainThread].inst = "f1"
    /\ call[MainThread].idx = 0
    /\ cache["f1"] = TextPath(<<"r">>)
    /\ cache["f2"] = DirPath(1)

(***************************************************************************)
(* Two threads calling find_root on one shared resolver (SpecConcurrent):  *)
(* the steps of the two calls interleave freely.                           *)
(***************************************************************************)
SharedInstance == "f1"

\* the lists the two threads call find_root with
ConcurrentLists == {NoneArg, <<"git">>, <<"markers", "structure">>}

InitConcurrent ==
    /\ tree \in {<<d, RootDir({}, {})>> : d \in PathStarts}
    /\ cache = [f \in Instances |-> NoneValue]
    /\ pc = [t \in Threads |-> "idle"]
    /\ call = [t \in Threads |-> NoCall]
    /\ returned = [f \in Instances |-> NoneValue]
    /\ markersArg = NoneArg
    /\ walk = [fn |-> "none", pc |-> "idle", s |-> <<>>, result |-> NoneValue]
    /\ sysPath = <<>>
    /\ ensure = NoEnsure
    /\ proc = NoProc
    /\ resolve = NoResolve

NextConcurrent ==
    \E t \in Threads :
        \/ \E ms \in ConcurrentLists : FindRootEnter(t, SharedInstance, ms)
        \/ FindRootStep(t)
        \/ FindRootRaise(t)
        \/ FindRootReturn(t)

SpecConcurrent == InitConcurrent /\ [][NextConcurrent]_vars

\* C19: with two threads in find_root on one shared instance, the cache
\* write is not atomic with the cache check: a call that passed the check
\* while the slot was empty writes its result into the slot whatever the
\* slot holds by then, and returns its own result; so both threads can pass
\* the check, both invoke strategies and both write the slot (the state of
\* C19_Witness), the slot being written more than once and the two calls
\* returning different paths.
C19_CacheWriteNotAtomicWithCheck ==
    [][\A t \in Threads :
          WritesCache(t) =>
            /\ call[t].prior = NoneValue
            /\ cache'[call[t].inst] = call'[t].ret
            /\ Last(call'[t].log).result = call'[t].ret]_vars

\* both threads passed the check and invoked a strategy, both wrote the
\* slot, the calls returned different paths and the slot holds the second
C19_Witness ==
    /\ \A t \in Threads :
        /\ Ended(t)
        /\ call[t].inst = SharedInstance
        /\ call[t].idx > 0
        /\ Invocations(call[t]) # <<>>
        /\ Truthy(call[t].ret)
    /\ call["t1"].ret # call["t2"].ret
    /\ returned[SharedInstance] = call["t1"].ret
    /\ cache[SharedInstance] = call["t2"].ret

(***************************************************************************)
(* The order of the strategies (Spec).                                     *)
(***************************************************************************)
\* C20: find_root invokes strategies one at a time, strictly in the order of
\* the requested list: the entry at position i is taken only after every
\* entry at an earlier position was taken and came to "not found", an
\* exception or an unknown name; with no list given the order is git, svn,
\* hg, markers, structure.
C20_StrategiesInListOrder ==
    /\ [](\A t \in Threads :
            (pc[t] \in {"loop", "done"} /\ call[t].idx > 0) =>
                LET c == call[t]
                IN  /\ c.methods = IF c.arg = NoneArg
                                   THEN <<"git", "svn", "hg", "markers", "structure">>
                                   ELSE c.arg
                    /\ Len(c.log) <= Len(c.methods)
                    /\ c.idx = Len(c.log) + 1
                    /\ \A k \in DOMAIN c.log :
                        /\ c.log[k].name = c.methods[k]
                        /\ (c.log[k].result = Skipped) <=> ~IsKnownName(c.methods[k])
                        /\ k < Len(c.log) => ~Truthy(c.log[k].result))
    /\ [][\A t \in Threads :
            (pc[t] = "loop" /\ call'[t].log # call[t].log) =>
                /\ Len(call'[t].log) = Len(call[t].log) + 1
                /\ SubSeq(call'[t].log, 1, Len(call[t].log)) = call[t].log
                /\ Last(call'[t].log).name = call[t].methods[Len(call[t].log) + 1]
                /\ \A k \in DOMAIN call[t].log :
                        ~Truthy(call[t].log[k].result)]_vars

\* no list given: git, svn, hg, markers and structure were invoked in this
\* order, each after the one before it had found nothing
C20_Witness ==
    /\ Ended(MainThread)
    /\ call[MainThread].arg = NoneArg
    /\ Len(call[MainThread].log) = 5
    /\ [k \in 1..5 |-> call[MainThread].log[k].name]
            = <<"git", "svn", "hg", "markers", "structure">>
    /\ \A k \in 1..5 : call[MainThread].log[k].result = NoneValue
    /\ call[MainThread].ret = FileNotFoundError

(***************************************************************************)
(* Failed calls and the cache (Spec).                                      *)
(***************************************************************************)
\* some strategy of the list ms can yield a path in the present environment
SomeStrategyCanFind(ms) ==
    \E k \in DOMAIN ms :
        IsKnownName(ms[k]) /\ \E r \in Finder(ms[k]) : Truthy(r)

\* C21: a find_root call that ends in root-not-found leaves the cache of its
\* instance empty (the failure is not cached): the step that raises changes
\* no cache slot, and a call that begins on an instance whose slot is empty
\* enters the loop at the first entry of its list, so a later call on the
\* instance invokes its strategies again and stores what they find.
C21_FailureNotCached ==
    /\ [](\A t \in Threads :
            (Ended(t) /\ call[t].ret = FileNotFoundError) =>
                /\ cache[call[t].inst] = NoneValue
                /\ call[t].idx > 0)
    /\ [](\A f \in Instances : cache[f] = NoneValue \/ Truthy(cache[f]))
    /\ [][\A t \in Threads :
            (pc[t] = "loop" /\ call'[t].ret = FileNotFoundError) =>
                cache' = cache]_vars
    /\ [][\A t \in Threads :
            (pc[t] = "idle" /\ pc'[t] # "idle"
                /\ cache[call'[t].inst] = NoneValue) =>
                    /\ pc'[t] = "loop"
                    /\ call'[t].idx = 1
                    /\ call'[t].log = <<>>]_vars

\* a call with the list ["structure"] has raised root-not-found on a start
\* directory in which marker scoring finds a root: the slot is empty, and
\* the next call on the instance will run its strategies
C21_Witness ==
    /\ Ended(MainThread)
    /\ call[MainThread].arg = <<"structure">>
    /\ call[MainThread].ret = FileNotFoundError
    /\ cache[call[MainThread].inst] = NoneValue
    /\ SomeStrategyCanFind(<<"markers">>)

(***************************************************************************)
(* The empty strategy list (Spec).                                         *)
(***************************************************************************)
\* C22: on an instance with an empty cache, find_root called with an
\* explicitly empty strategy list raises root-not-found without invoking any
\* strategy; only an absent (None) list selects the default order git, svn,
\* hg, markers, structure, any list given being iterated as it is.
C22_EmptyListRaisesOnlyNoneIsDefault ==
    \A t \in Threads :
        (pc[t] \in {"loop", "done"} /\ call[t].idx > 0) =>
            LET c == call[t]
            IN  /\ (c.arg = NoneArg) =>
                        c.methods = <<"git", "svn", "hg", "markers", "structure">>
                /\ (c.arg # NoneArg) => c.methods = c.arg
                /\ (c.arg = <<>>) =>
                        /\ c.log = <<>>
                        /\ c.ret \in {NoneValue, FileNotFoundError}
                        /\ cache[c.inst] = NoneValue
                        /\ Ended(t) => c.ret = FileNotFoundError

\* a call with the list [] has raised without taking any entry, on a start
\* directory where the default list would have found a root
C22_Witness ==
    /\ EndedUncached(MainThread)
    /\ call[MainThread].arg = <<>>
    /\ call[MainThread].log = <<>>
    /\ call[MainThread].ret = FileNotFoundError
    /\ SomeStrategyCanFind(<<"git", "svn", "hg", "markers", "structure">>)

(***************************************************************************)
(* The filesystem root (SpecStructure).                                    *)
(***************************************************************************)
FilesystemRoot == Len(tree)

\* C23: neither _find_by_markers nor _find_by_structure ever returns the
\* filesystem root, whatever markers or src/lib layout with .py files it
\* holds: the call made returns something else, and so does either traversal
\* of a resolver started at the start path, at its parent or at the root.
C23_FilesystemRootNeverReturned ==
    /\ (walk.pc = "done") => walk.result # DirPath(FilesystemRoot)
    /\ \A i \in {1, Parent(1), FilesystemRoot} :
            /\ FindByMarkersAt(i, markersArg) # DirPath(FilesystemRoot)
            /\ FindByStructureAt(i) # DirPath(FilesystemRoot)

\* _find_by_structure has returned None on a chain whose only directory with
\* a src layout and a .py file is the filesystem root, fewer than fifty
\* parent steps up; the root holds default markers too and marker scoring
\* returns None as well
C23_Witness ==
    /\ StructureDone
    /\ walk.result = NoneValue
    /\ MeetsBoth(FilesystemRoot)
    /\ FilesystemRoot > 1
    /\ FilesystemRoot < MaxTraversalDepth
    /\ \A i \in 1..(FilesystemRoot - 1) : IsDirAt(i)
    /\ Count(FilesystemRoot) > 0
    /\ FindByMarkers(markersArg) = NoneValue

(***************************************************************************)
(* The hop budget of marker scoring (SpecMarkers).                         *)
(***************************************************************************)
\* the loop state _find_by_markers ends with
MarkersFinal == MarkersLoop(MarkersStart, EffectiveMarkers(markersArg))

\* the directories an iteration has run on when the loop has counted d hops
Iterated(d, i) == i \in Ancestors /\ Hops(i) < d

\* iterated directories left by a continue: not existing, or of a blocked name
SkippedDirs(d) ==
    {i \in Ancestors :
        Iterated(d, i) /\ ~StatRaises(i) /\ (~IsDirAt(i) \/ Blocked(i))}

\* iterated directories whose markers were counted
ScoredDirs(d) ==
    {i \in Ancestors :
        Iterated(d, i) /\ ~StatRaises(i) /\ IsDirAt(i) /\ ~Blocked(i)}

\* C24: in marker scoring every visited directory consumes one of the 50
\* hops, skipped ones included (the loop stands as many parent steps above
\* the starting directory as it has counted hops); so the directories scored
\* number at most 50 minus those skipped, every candidate is a scored
\* directory, and a directory 50 or more parent steps above the starting
\* directory is never returned, whatever its marker count.
C24_SkippedDirectoriesConsumeHops ==
    (MarkersDone /\ walk.result # RaisedException) =>
        \A s \in {MarkersFinal} :
            \A scored \in {ScoredDirs(s.depth)} :
                /\ s.depth <= MaxTraversalDepth
                /\ s.current = Origin + s.depth - (IF s.broke THEN 1 ELSE 0)
                /\ Cardinality(scored)
                        <= MaxTraversalDepth - Cardinality(SkippedDirs(s.depth))
                /\ \A k \in DOMAIN s.candidates : s.candidates[k].key \in scored
                /\ \A i \in Ancestors :
                        (Hops(i) >= MaxTraversalDepth) => walk.result # DirPath(i)
                /\ \A i \in Ancestors :
                        (walk.result = DirPath(i)) => i \in scored

\* the starting directory was skipped and used up a hop, all 50 hops were
\* spent, and the one directory holding markers, 50 parent steps up, was
\* not returned
C24_Witness ==
    /\ MarkersDone
    /\ ~StatRaises(Origin) /\ (~IsDirAt(Origin) \/ Blocked(Origin))
    /\ walk.result = NoneValue
    /\ \E i \in Ancestors :
            /\ Hops(i) = MaxTraversalDepth
            /\ i < Len(tree)
            /\ IsDirAt(i) /\ ~Blocked(i)
            /\ Count(i) > 0
    /\ MarkersFinal.depth = MaxTraversalDepth

====
